---- MODULE Spec2Model ----
(***************************************************************************)
(* Model of src/src/people.js (MixpanelPeople): the profile-mutation       *)
(* dispatcher, its identity gate, the pending-mutation queues it feeds and *)
(* the flush that replays them.                                            *)
(*                                                                         *)
(* JavaScript values are tagged records (field t): numbers, strings,       *)
(* arrays, plain objects, functions, true and undefined.  A public call is *)
(* one atomic action (the engine runs a handler to completion); the        *)
(* outcome of a transport request arrives later as an action of its own.   *)
(***************************************************************************)
EXTENDS Integers, Sequences, FiniteSets, Bags, TLC

VARIABLES
    identify_called,  \* this._mixpanel._flags.identify_called
    distinct_id,      \* this._mixpanel.get_distinct_id()
    verbose,          \* this._get_config('verbose')
    queues,           \* persistence: one people queue per action
    inflight,         \* requests handed to the transport, outcome pending
    cells,            \* the `$append_item` variable of each _flush that replayed appends
    calls,            \* number of public calls made so far
    direct,           \* number of them made after identity was resolved
    flushes,          \* number of _flush invocations that found something queued
    delivered,        \* requests whose outcome was a success
    buffered,         \* (action, name) pairs accepted while unresolved
    flushed_resolved, \* a _flush ran after identity was resolved
    flush_failed,     \* a flushed request came back as a failure
    last              \* what the most recent operation did

vars == <<identify_called, distinct_id, verbose, queues, inflight, cells,
          calls, direct, flushes, delivered, buffered, flushed_resolved,
          flush_failed, last>>

----------------------------------------------------------------------------
(* Bounds *)

\* public calls in all
MaxCalls == 2
\* public calls made after identity was resolved
MaxDirect == 1
\* _flush invocations that find something queued (a _flush of empty queues
\* changes nothing and is always possible)
MaxFlushes == 1

----------------------------------------------------------------------------
(* Action kinds *)

SET_ACTION == "$set"
SET_ONCE_ACTION == "$set_once"
UNSET_ACTION == "$unset"
ADD_ACTION == "$add"
APPEND_ACTION == "$append"
UNION_ACTION == "$union"
DELETE_ACTION == "$delete"

MapActions == {SET_ACTION, SET_ONCE_ACTION, UNSET_ACTION, ADD_ACTION, UNION_ACTION}
QueueActions == MapActions \cup {APPEND_ACTION}

----------------------------------------------------------------------------
(* JavaScript values *)

Undefined == [t |-> "undefined"]
True == [t |-> "true"]
Num(n) == [t |-> "num", n |-> n]
Arr(items) == [t |-> "arr", items |-> items]
Obj(m) == [t |-> "obj", m |-> m]
EmptyMap == [k \in {} |-> Undefined]

\* The texts the model uses and their lengths; "long" stands for a text of
\* 300 characters, every other text is as long as it is written.
StrLen(s) ==
    CASE s = "long" -> 300
      [] s = "a" -> 1
      [] s = "b" -> 1
      [] s = "x" -> 1
      [] s = "oops" -> 4
      [] s = "5" -> 1
      [] s = "tok" -> 3
      [] s = "anon" -> 4
      [] s = "user" -> 4
      [] s = "$token" -> 6
      [] s = "$distinct_id" -> 12
      [] s = "$transactions" -> 13
      [] s = "Chrome" -> 6
      [] s = "ref" -> 3
      [] OTHER -> 9

\* A string value is the first len characters of the text s.
Str(s) == [t |-> "str", s |-> s, len |-> StrLen(s)]

IsUndefined(v) == v.t = "undefined"
IsObject(v) == v.t = "obj"
IsArray(v) == v.t = "arr"
IsNumber(v) == v.t = "num"
IsEmptyObject(v) == v.t = "obj" /\ DOMAIN v.m = {}

Range(f) == {f[i] : i \in DOMAIN f}

RECURSIVE SetToSeq(_)
SetToSeq(S) ==
    IF S = {} THEN <<>>
    ELSE LET x == CHOOSE y \in S : TRUE IN <<x>> \o SetToSeq(S \ {x})

\* _.extend({}, a, b) on the property maps of two objects
Extend(a, b) ==
    [k \in DOMAIN a \cup DOMAIN b |-> IF k \in DOMAIN b THEN b[k] ELSE a[k]]

\* the property name a value stands for when used as an object key
KeyOf(v) ==
    CASE v.t = "str" -> v.s
      [] v.t = "undefined" -> "undefined"
      [] v.t = "num" -> "number"
      [] OTHER -> "object"

\* _.keys(obj), as an array of strings
Keys(obj) == Arr([i \in 1..Cardinality(DOMAIN obj.m) |-> Str(SetToSeq(DOMAIN obj.m)[i])])

\* isNaN(parseFloat(v))
RECURSIVE ParseFloatIsNaN(_)
ParseFloatIsNaN(v) ==
    CASE v.t = "num" -> FALSE
      [] v.t = "str" -> v.s # "5"
      [] v.t = "arr" -> IF v.items = <<>> THEN TRUE ELSE ParseFloatIsNaN(v.items[1])
      [] OTHER -> TRUE

\* parseFloat(v) for the values that parse
ParseFloat(v) == IF v.t = "num" THEN v ELSE Num(5)

\* _.encodeDates(obj): a Date becomes its formatted string, anything else
\* is kept
RECURSIVE EncodeDates(_)
EncodeDates(v) ==
    CASE v.t = "date" -> [t |-> "str", s |-> "date", len |-> 19]
      [] v.t = "obj" -> Obj([k \in DOMAIN v.m |-> EncodeDates(v.m[k])])
      [] v.t = "arr" -> Arr([i \in DOMAIN v.items |-> EncodeDates(v.items[i])])
      [] OTHER -> v

\* _.truncate(obj, length): strings are clipped, arrays and objects are
\* truncated element by element
RECURSIVE Truncate(_, _)
Truncate(v, length) ==
    CASE v.t = "str" -> [v EXCEPT !.len = IF @ > length THEN length ELSE @]
      [] v.t = "obj" -> Obj([k \in DOMAIN v.m |-> Truncate(v.m[k], length)])
      [] v.t = "arr" -> Arr([i \in DOMAIN v.items |-> Truncate(v.items[i], length)])
      [] OTHER -> v

----------------------------------------------------------------------------
(* Collaborators *)

Token == Str("tok")
AnonymousId == Str("anon")
ResolvedId == Str("user")

\* _.info.people_properties() and persistence.get_referrer_info()
PeopleProperties == ("$browser" :> Str("Chrome"))
ReferrerInfo == ("$initial_referrer" :> Str("ref"))

\* results a continuation can receive: a status, bare or (verbose) wrapped
\* in a status object
Result(status, isVerbose) ==
    IF isVerbose THEN Obj(("status" :> Num(status)) @@ ("error" :> Undefined))
    ELSE Num(status)

TransportResult(ok, isVerbose) == Result(IF ok THEN 1 ELSE 0, isVerbose)

\* response === 0
IsZero(response) == response.t = "num" /\ response.n = 0

----------------------------------------------------------------------------
(* Pending Mutation Store *)

InitQueues == [a \in QueueActions |-> Undefined]

GetQueue(q, queue) == q[queue]

GetOrCreateQueue(q, queue) ==
    IF IsUndefined(q[queue])
    THEN (IF queue = APPEND_ACTION THEN Arr(<<>>) ELSE Obj(EmptyMap))
    ELSE q[queue]

AddMerge(old, new) ==
    IF old.t = "num" /\ new.t = "num" THEN Num(old.n + new.n) ELSE new

UnionMerge(old, new) ==
    IF old.t = "arr" /\ new.t = "arr" THEN Arr(old.items \o new.items) ELSE new

\* enqueue(actionKind, data): merges data[actionKind] into the queue
AddToPeopleQueue(q, queue, data) ==
    LET q_data == IF data.t = "obj" /\ queue \in DOMAIN data.m
                  THEN data.m[queue] ELSE Undefined
        cur == GetOrCreateQueue(q, queue)
        merged ==
            CASE queue = APPEND_ACTION -> Arr(Append(cur.items, q_data))
              [] queue = UNSET_ACTION ->
                    IF q_data.t = "arr"
                    THEN Obj(Extend(cur.m, [n \in {KeyOf(x) : x \in Range(q_data.items)} |-> True]))
                    ELSE cur
              [] queue = ADD_ACTION ->
                    IF q_data.t = "obj"
                    THEN Obj([k \in DOMAIN cur.m \cup DOMAIN q_data.m |->
                               IF k \notin DOMAIN q_data.m THEN cur.m[k]
                               ELSE IF k \notin DOMAIN cur.m THEN q_data.m[k]
                               ELSE AddMerge(cur.m[k], q_data.m[k])])
                    ELSE cur
              [] queue = UNION_ACTION ->
                    IF q_data.t = "obj"
                    THEN Obj([k \in DOMAIN cur.m \cup DOMAIN q_data.m |->
                               IF k \notin DOMAIN q_data.m THEN cur.m[k]
                               ELSE IF k \notin DOMAIN cur.m THEN q_data.m[k]
                               ELSE UnionMerge(cur.m[k], q_data.m[k])])
                    ELSE cur
              [] OTHER ->
                    IF q_data.t = "obj" THEN Obj(Extend(cur.m, q_data.m)) ELSE cur
    IN [q EXCEPT ![queue] = merged]

\* removeFromQueue(actionKind, data): removes the keys of data from the queue
PopFromPeopleQueue(q, queue, data) ==
    IF IsUndefined(q[queue]) \/ q[queue].t # "obj" \/ data.t # "obj" THEN q
    ELSE [q EXCEPT ![queue] =
            Obj([k \in DOMAIN q[queue].m \ DOMAIN data.m |-> q[queue].m[k]])]

----------------------------------------------------------------------------
(* The state one handler works on: the store (q), the transport (net, the   *)
(* bag of requests whose outcome is pending), the closure variables of the  *)
(* flushes (cells), the entry of the APPEND queue being replayed (entry),   *)
(* the trace of what the handler did (tr) and its return value (ret).       *)

Log(s, ev) == [s EXCEPT !.tr = Append(@, ev)]

LogAll(s, evs) == [s EXCEPT !.tr = @ \o evs]

Return(s, v) == Log([s EXCEPT !.ret = v], [e |-> "return", ret |-> v])

ConsoleError(s, msg) == Log(s, [e |-> "error", msg |-> msg])

\* persistence._add_to_people_queue(queue, data)
StoreAdd(s, queue, data) ==
    Log([s EXCEPT !.q = AddToPeopleQueue(s.q, queue, data)],
        [e |-> "enqueue", action |-> queue, data |-> data])

\* persistence._pop_from_people_queue(queue, data)
StorePop(s, queue, data) ==
    Log([s EXCEPT !.q = PopFromPeopleQueue(s.q, queue, data)],
        [e |-> "pop", action |-> queue, data |-> data])

\* persistence.save()
StoreSave(s) == Log(s, [e |-> "save"])

\* no entry of the APPEND queue stands behind this request
NoEntry == [t |-> "none"]

\* this._mixpanel._send_request(url, {data: encoded_data}, prepared_callback)
TransportSend(s, wire, cb) ==
    Log([s EXCEPT !.net = @ (+) SetToBag({[data |-> wire, cb |-> cb, popped |-> s.entry]})],
        [e |-> "send", data |-> wire, cb |-> cb])

\* this._mixpanel._prepare_callback(callback, data): nothing to call when no
\* callback was given, else the callback, which gets the transport's result
PrepareCallback(callback, data) == callback

----------------------------------------------------------------------------
(* Continuations *)

\* a continuation supplied by the caller
UserCallback(tag) == [t |-> "function", c |-> "user", tag |-> tag]

\* if (!_.isUndefined(callback)) callback(response, data), on the caller's
\* continuation
CallUserCallback(s, cb, response) ==
    IF ~IsUndefined(cb) THEN Log(s, [e |-> "callback", cb |-> cb, response |-> response])
    ELSE s

\* if (response === 0) _add_to_people_queue(queue, data)
AddBackOnFailure(s, response, queue, data) ==
    IF IsZero(response) THEN StoreAdd(s, queue, data) ELSE s

\* the continuation _flush_one_queue wraps around the caller's
FlushOneCallback(s, cb, response) ==
    CallUserCallback(AddBackOnFailure(s, response, cb.action, cb.queued_data),
                     cb.callback, response)

\* the continuation _flush shares between the entries of the APPEND queue;
\* $append_item is read when the continuation runs
FlushAppendCallback(s, cb, response) ==
    CallUserCallback(AddBackOnFailure(s, response, APPEND_ACTION, s.cells[cb.cell]),
                     cb.callback, response)

\* a continuation is called with a result
InvokeCallback(s, cb, response) ==
    CASE cb.c = "flush_one" ->
            FlushOneCallback(Log(s, [e |-> "callback", cb |-> cb, response |-> response]),
                             cb, response)
      [] cb.c = "flush_append" ->
            FlushAppendCallback(Log(s, [e |-> "callback", cb |-> cb, response |-> response]),
                                cb, response)
      [] OTHER -> Log(s, [e |-> "callback", cb |-> cb, response |-> response])

----------------------------------------------------------------------------
(* Dispatcher *)

is_reserved_property(prop) == prop = "$distinct_id" \/ prop = "$token"

\* the keys of a map that pass the reserved property filter
FilterReserved(m) == [k \in {x \in DOMAIN m : ~is_reserved_property(x)} |-> m[k]]

get_config_verbose == verbose

\* variant: the identifier is the one a visitor has before identify
get_distinct_id_stale == AnonymousId

\* this._mixpanel.get_distinct_id(), read when the request is composed
get_distinct_id == distinct_id

\* variant: a $set_once datum is filed under $set
enqueue_misfiled(s, data) ==
    LET queue == CASE SET_ACTION \in DOMAIN data.m -> SET_ACTION
                   [] SET_ONCE_ACTION \in DOMAIN data.m -> SET_ACTION
                   [] UNSET_ACTION \in DOMAIN data.m -> UNSET_ACTION
                   [] ADD_ACTION \in DOMAIN data.m -> ADD_ACTION
                   [] APPEND_ACTION \in DOMAIN data.m -> APPEND_ACTION
                   [] UNION_ACTION \in DOMAIN data.m -> UNION_ACTION
                   [] OTHER -> "invalid"
    IN IF queue = "invalid" THEN ConsoleError(s, "Invalid call to _enqueue()")
       ELSE StoreAdd(s, queue, data)

\* the if/else chain picks the queue of the first action key the datum has
enqueue(s, data) ==
    LET queue == CASE SET_ACTION \in DOMAIN data.m -> SET_ACTION
                   [] SET_ONCE_ACTION \in DOMAIN data.m -> SET_ONCE_ACTION
                   [] UNSET_ACTION \in DOMAIN data.m -> UNSET_ACTION
                   [] ADD_ACTION \in DOMAIN data.m -> ADD_ACTION
                   [] APPEND_ACTION \in DOMAIN data.m -> APPEND_ACTION
                   [] UNION_ACTION \in DOMAIN data.m -> UNION_ACTION
                   [] OTHER -> "invalid"
    IN IF queue = "invalid" THEN ConsoleError(s, "Invalid call to _enqueue()")
       ELSE StoreAdd(s, queue, data)

\* variant: the deferred result reuses the failure status
DeferredResult_zero == Result(0, get_config_verbose)

\* the cap _send_request gives _.truncate
TruncateLength == 255

\* the deferred result handed to the continuation while unresolved
DeferredResult == Result(-1, get_config_verbose)

\* variant: the deferred result is handed to the continuation whether or not
\* identity is resolved
send_request_eager(s, data0, callback) ==
    LET data == Obj(Extend(data0.m, ("$token" :> Token) @@ ("$distinct_id" :> distinct_id)))
        truncated_data == Truncate(EncodeDates(data), TruncateLength)
        s0 == Log(s, [e |-> "dispatch", data |-> data0, cb |-> callback,
                      resolved |-> identify_called])
        s1 == IF ~identify_called THEN enqueue(s0, data)
              ELSE TransportSend(s0, EncodeDates(data), PrepareCallback(callback, truncated_data))
        s2 == IF ~IsUndefined(callback) THEN InvokeCallback(s1, callback, DeferredResult)
              ELSE s1
    IN Return(s2, truncated_data)

send_request(s, data0, callback) ==
    LET data == Obj(Extend(data0.m, ("$token" :> Token) @@ ("$distinct_id" :> get_distinct_id)))
        date_encoded_data == EncodeDates(data)
        truncated_data == Truncate(date_encoded_data, TruncateLength)
        \* JSON and base64 are codecs: the request is named by what they encode
        encoded_data == date_encoded_data
        s0 == Log(s, [e |-> "dispatch", data |-> data0, cb |-> callback,
                      resolved |-> identify_called])
    IN IF ~identify_called
       THEN LET s1 == enqueue(s0, data)
                s2 == IF ~IsUndefined(callback)
                      THEN InvokeCallback(s1, callback, DeferredResult)
                      ELSE s1
            IN Return(s2, truncated_data)
       ELSE Return(TransportSend(s0, encoded_data, PrepareCallback(callback, truncated_data)),
                   truncated_data)

----------------------------------------------------------------------------
(* Mutation Encoder: the public operations *)

set(s, prop, to, callback) ==
    LET set_props == IF IsObject(prop) THEN FilterReserved(prop.m) ELSE (KeyOf(prop) :> to)
        cb == IF IsObject(prop) THEN to ELSE callback
        \* the referrer info is already saved; the defaults come first
        with_defaults == Extend(Extend(PeopleProperties, ReferrerInfo), set_props)
    IN send_request(s, Obj(SET_ACTION :> Obj(with_defaults)), cb)

set_once(s, prop, to, callback) ==
    LET set_once_props == IF IsObject(prop) THEN FilterReserved(prop.m) ELSE (KeyOf(prop) :> to)
        cb == IF IsObject(prop) THEN to ELSE callback
    IN send_request(s, Obj(SET_ONCE_ACTION :> Obj(set_once_props)), cb)

unset(s, prop, callback) ==
    LET props == IF ~IsArray(prop) THEN <<prop>> ELSE prop.items
        unset_props == SelectSeq(props, LAMBDA k : ~is_reserved_property(KeyOf(k)))
    IN send_request(s, Obj(UNSET_ACTION :> Arr(unset_props)), callback)

IncrementError == "Invalid increment value passed to mixpanel.people.increment - must be a number"

increment(s, prop, by, callback) ==
    IF IsObject(prop)
    THEN LET allowed == {k \in DOMAIN prop.m : ~is_reserved_property(k)}
             invalid == {k \in allowed : ParseFloatIsNaN(prop.m[k])}
             add_props == [k \in allowed \ invalid |-> prop.m[k]]
             s1 == LogAll(s, [i \in 1..Cardinality(invalid) |->
                                [e |-> "error", msg |-> IncrementError]])
         IN send_request(s1, Obj(ADD_ACTION :> Obj(add_props)), by)
    ELSE LET amount == IF IsUndefined(by) THEN Num(1) ELSE by
         IN send_request(s, Obj(ADD_ACTION :> Obj(KeyOf(prop) :> amount)), callback)

append(s, list_name, value, callback) ==
    LET append_props == IF IsObject(list_name) THEN FilterReserved(list_name.m)
                        ELSE (KeyOf(list_name) :> value)
        cb == IF IsObject(list_name) THEN value ELSE callback
    IN send_request(s, Obj(APPEND_ACTION :> Obj(append_props)), cb)

union(s, list_name, values, callback) ==
    LET union_props ==
            IF IsObject(list_name)
            THEN [k \in DOMAIN FilterReserved(list_name.m) |->
                    IF IsArray(list_name.m[k]) THEN list_name.m[k] ELSE Arr(<<list_name.m[k]>>)]
            ELSE (KeyOf(list_name) :> IF IsArray(values) THEN values ELSE Arr(<<values>>))
        cb == IF IsObject(list_name) THEN values ELSE callback
    IN send_request(s, Obj(UNION_ACTION :> Obj(union_props)), cb)

track_charge(s, amount, properties, callback) ==
    IF ~IsNumber(amount) /\ ParseFloatIsNaN(amount)
    THEN Return(ConsoleError(s, "Invalid value passed to mixpanel.people.track_charge - must be a number"),
                Undefined)
    ELSE LET parsed == IF IsNumber(amount) THEN amount ELSE ParseFloat(amount)
             extra == IF IsObject(properties) THEN properties.m ELSE EmptyMap
         IN append(s, Str("$transactions"), Obj(Extend("$amount" :> parsed, extra)), callback)

clear_charges(s, callback) == set(s, Str("$transactions"), Arr(<<>>), callback)

DeleteUserError == "mixpanel.people.delete_user() requires you to call identify() first"

\* variant: the identity gate of delete_user is missing
delete_user_ungated(s) == send_request(s, Obj(DELETE_ACTION :> distinct_id), Undefined)

delete_user(s) ==
    IF ~identify_called
    THEN Return(ConsoleError(s, DeleteUserError), Undefined)
    ELSE send_request(s, Obj(DELETE_ACTION :> distinct_id), Undefined)

----------------------------------------------------------------------------
(* Flush Coordinator *)

\* action_method.call(_this, action_params, callback)
CallMethod(s, action_method, action_params, callback) ==
    CASE action_method = "set" -> set(s, action_params, callback, Undefined)
      [] action_method = "set_once" -> set_once(s, action_params, callback, Undefined)
      [] action_method = "unset" -> unset(s, action_params, callback)
      [] action_method = "increment" -> increment(s, action_params, callback, Undefined)
      [] action_method = "union" -> union(s, action_params, callback, Undefined)
      [] OTHER -> append(s, action_params, callback, Undefined)

\* variant: the entry read is removed only after it was dispatched
flush_one_queue_late(s, action, action_method, callback, queue_to_params_fn) ==
    LET queue == GetQueue(s.q, action)
        queued_data == Obj(IF IsObject(queue) THEN Extend(EmptyMap, queue.m) ELSE EmptyMap)
    IN IF ~IsUndefined(queued_data) /\ IsObject(queued_data) /\ ~IsEmptyObject(queued_data)
       THEN LET action_params == IF queue_to_params_fn = "keys" THEN Keys(queued_data)
                                 ELSE queued_data
                wrapper == [t |-> "function", c |-> "flush_one", action |-> action,
                            queued_data |-> queued_data, callback |-> callback]
            IN StorePop(CallMethod(s, action_method, action_params, wrapper),
                        action, queued_data)
       ELSE s

\* variant: the entry read is dispatched but left in the store
flush_one_queue_kept(s, action, action_method, callback, queue_to_params_fn) ==
    LET queue == GetQueue(s.q, action)
        queued_data == Obj(IF IsObject(queue) THEN Extend(EmptyMap, queue.m) ELSE EmptyMap)
    IN IF ~IsUndefined(queued_data) /\ IsObject(queued_data) /\ ~IsEmptyObject(queued_data)
       THEN LET action_params == IF queue_to_params_fn = "keys" THEN Keys(queued_data)
                                 ELSE queued_data
                wrapper == [t |-> "function", c |-> "flush_one", action |-> action,
                            queued_data |-> queued_data, callback |-> callback]
            IN CallMethod(s, action_method, action_params, wrapper)
       ELSE s

flush_one_queue(s, action, action_method, callback, queue_to_params_fn) ==
    LET queue == GetQueue(s.q, action)
        queued_data == Obj(IF IsObject(queue) THEN Extend(EmptyMap, queue.m) ELSE EmptyMap)
    IN IF ~IsUndefined(queued_data) /\ IsObject(queued_data) /\ ~IsEmptyObject(queued_data)
       THEN LET s1 == StorePop(s, action, queued_data)
                action_params == IF queue_to_params_fn = "keys" THEN Keys(queued_data)
                                 ELSE queued_data
                wrapper == [t |-> "function", c |-> "flush_one", action |-> action,
                            queued_data |-> queued_data, callback |-> callback]
            IN CallMethod(s1, action_method, action_params, wrapper)
       ELSE s

\* variant: the entry is taken from the head of the list
ArrayShift(items) ==
    IF items = <<>> THEN [item |-> Undefined, rest |-> <<>>]
    ELSE [item |-> items[1], rest |-> SubSeq(items, 2, Len(items))]

\* $append_queue.pop(): the last entry, and the list without it
ArrayPop(items) ==
    IF items = <<>> THEN [item |-> Undefined, rest |-> <<>>]
    ELSE [item |-> items[Len(items)], rest |-> SubSeq(items, 1, Len(items) - 1)]

\* the body of the for loop of _flush, n iterations left; $append_queue is
\* the store's own list, so pop() shortens the queue in the store
RECURSIVE FlushAppendLoop(_, _, _, _)
FlushAppendLoop(s, n, cell, callback) ==
    IF n = 0 THEN s
    ELSE LET items == s.q[APPEND_ACTION].items
             append_item == ArrayPop(items).item
             rest == ArrayPop(items).rest
             \* entry remembers which queue entry stands behind the request
             s1 == Log([s EXCEPT !.q[APPEND_ACTION] = Arr(rest), !.cells[cell] = append_item,
                                 !.entry = append_item],
                       [e |-> "pop_append", item |-> append_item])
             s2 == append(s1, append_item, callback, Undefined)
             s3 == [s2 EXCEPT !.entry = NoEntry]
         IN FlushAppendLoop(s3, n - 1, cell, callback)

\* variant: the store is saved before the entries are popped
FlushAppendQueue_early(s, append_queue, cell, append_callback) ==
    IF ~IsUndefined(append_queue) /\ IsArray(append_queue) /\ Len(s.q[APPEND_ACTION].items) > 0
    THEN FlushAppendLoop(StoreSave([s EXCEPT !.cells = Append(@, Undefined)]),
                         Len(s.q[APPEND_ACTION].items), cell,
                         [t |-> "function", c |-> "flush_append", cell |-> cell,
                          callback |-> append_callback])
    ELSE s

\* the APPEND part of _flush: each entry is fired off individually
FlushAppendQueue(s, append_queue, cell, append_callback) ==
    IF ~IsUndefined(append_queue) /\ IsArray(append_queue) /\ Len(s.q[APPEND_ACTION].items) > 0
    THEN StoreSave(FlushAppendLoop([s EXCEPT !.cells = Append(@, Undefined)],
                                   Len(s.q[APPEND_ACTION].items), cell,
                                   [t |-> "function", c |-> "flush_append", cell |-> cell,
                                    callback |-> append_callback]))
    ELSE s

flush(s, set_callback, add_callback, append_callback, set_once_callback, union_callback, unset_callback) ==
    LET append_queue == GetQueue(s.q, APPEND_ACTION)
        s1 == flush_one_queue(s, SET_ACTION, "set", set_callback, "none")
        s2 == flush_one_queue(s1, SET_ONCE_ACTION, "set_once", set_once_callback, "none")
        s3 == flush_one_queue(s2, UNSET_ACTION, "unset", unset_callback, "keys")
        s4 == flush_one_queue(s3, ADD_ACTION, "increment", add_callback, "none")
        s5 == flush_one_queue(s4, UNION_ACTION, "union", union_callback, "none")
    IN FlushAppendQueue(s5, append_queue, Len(s.cells) + 1, append_callback)

----------------------------------------------------------------------------
(* Inputs *)

UserCb == UserCallback("cb")

\* (prop, to, callback)
SetArgs ==
    { <<Str("$token"), Str("long"), UserCb>>,
      <<Obj(("a" :> Num(2)) @@ ("$distinct_id" :> Str("x"))), Undefined, Undefined>> }

SetOnceArgs ==
    { <<Obj(("a" :> Num(1)) @@ ("$token" :> Str("x"))), Undefined, Undefined>> }

\* (prop, callback)
UnsetArgs ==
    { <<Str("a"), UserCb>>,
      <<Arr(<<Str("$token"), Str("b")>>), Undefined>> }

\* (prop, by, callback)
IncrementArgs ==
    { <<Str("b"), Str("oops"), UserCb>>,
      <<Obj(("a" :> Num(1)) @@ ("b" :> Str("oops")) @@ ("$token" :> Num(2))), Undefined, Undefined>> }

\* (list_name, value, callback)
AppendArgs ==
    { <<Str("a"), Num(1), Undefined>>,
      <<Str("$token"), Str("x"), UserCb>> }

\* (list_name, values, callback)
UnionArgs ==
    { <<Str("a"), Str("x"), UserCb>>,
      <<Str("$token"), Arr(<<Str("x")>>), Undefined>>,
      <<Obj(("a" :> Arr(<<Str("x"), Str("b")>>)) @@ ("b" :> Num(1)) @@ ("$token" :> Str("x"))),
        Undefined, Undefined>> }

\* (amount, properties, callback)
TrackChargeArgs ==
    { <<Str("5"), Undefined, UserCb>> }

Callbacks == {Undefined}

\* (_set_callback, _add_callback, _append_callback, _set_once_callback,
\*  _union_callback, _unset_callback)
FlushArgs ==
    { <<UserCallback(SET_ACTION), Undefined, UserCallback(APPEND_ACTION),
        Undefined, UserCallback(UNION_ACTION), Undefined>> }

----------------------------------------------------------------------------
(* The state machine *)

\* the property name whose buffered mutations are followed to the server
TrackedName == "a"

HasName(payload, name) ==
    CASE payload.t = "obj" -> name \in DOMAIN payload.m
      [] payload.t = "arr" -> \E i \in DOMAIN payload.items : KeyOf(payload.items[i]) = name
      [] OTHER -> FALSE

\* the action a request or an enqueued datum is keyed by
ActionOf(data) ==
    IF \E a \in QueueActions : a \in DOMAIN data.m
    THEN CHOOSE a \in QueueActions : a \in DOMAIN data.m
    ELSE DELETE_ACTION

FromFlush(req) == ~IsUndefined(req.cb) /\ req.cb.c \in {"flush_one", "flush_append"}

Carries(data, action) ==
    data.t = "obj" /\ action \in DOMAIN data.m /\ HasName(data.m[action], TrackedName)

Count(seq, P(_)) == Len(SelectSeq(seq, P))

Start == [q |-> queues, net |-> inflight, cells |-> cells, entry |-> NoEntry,
          tr |-> <<>>, ret |-> Undefined]

Commit(op, args, s, req, ok) ==
    /\ queues' = s.q
    /\ inflight' = s.net
    /\ cells' = s.cells
    /\ last' = [op |-> op, args |-> args, resolved |-> identify_called, pre |-> queues,
                tr |-> s.tr, ret |-> s.ret, req |-> req, ok |-> ok]

PublicCall(op, args, s) ==
    /\ calls < MaxCalls
    /\ identify_called => direct < MaxDirect
    /\ calls' = calls + 1
    /\ direct' = IF identify_called THEN direct + 1 ELSE direct
    /\ Commit(op, args, s, NoEntry, FALSE)
    /\ buffered' = [a \in QueueActions |->
          LET n == Count(s.tr, LAMBDA ev : ev.e = "enqueue" /\ ev.action = a /\ Carries(ev.data, a))
          IN IF a = APPEND_ACTION THEN buffered[a] + n
             ELSE IF n > 0 THEN 1 ELSE buffered[a]]
    /\ UNCHANGED <<identify_called, distinct_id, verbose, flushes, delivered,
                   flushed_resolved, flush_failed>>

Init ==
    /\ identify_called = FALSE
    /\ distinct_id = AnonymousId
    /\ verbose \in BOOLEAN
    /\ queues = InitQueues
    /\ inflight = EmptyBag
    /\ cells = <<>>
    /\ calls = 0
    /\ direct = 0
    /\ flushes = 0
    /\ delivered = [a \in QueueActions |-> 0]
    /\ buffered = [a \in QueueActions |-> 0]
    /\ flushed_resolved = FALSE
    /\ flush_failed = FALSE
    /\ last = [op |-> "init", args |-> <<>>, resolved |-> FALSE, pre |-> InitQueues,
               tr |-> <<>>, ret |-> Undefined, req |-> NoEntry, ok |-> FALSE]

CallSet == \E args \in SetArgs :
    PublicCall("set", args, set(Start, args[1], args[2], args[3]))

CallSetOnce == \E args \in SetOnceArgs :
    PublicCall("set_once", args, set_once(Start, args[1], args[2], args[3]))

CallUnset == \E args \in UnsetArgs :
    PublicCall("unset", args, unset(Start, args[1], args[2]))

CallIncrement == \E args \in IncrementArgs :
    PublicCall("increment", args, increment(Start, args[1], args[2], args[3]))

CallAppend == \E args \in AppendArgs :
    PublicCall("append", args, append(Start, args[1], args[2], args[3]))

CallUnion == \E args \in UnionArgs :
    PublicCall("union", args, union(Start, args[1], args[2], args[3]))

CallTrackCharge == \E args \in TrackChargeArgs :
    PublicCall("track_charge", args, track_charge(Start, args[1], args[2], args[3]))

CallClearCharges == \E cb \in Callbacks :
    PublicCall("clear_charges", <<cb>>, clear_charges(Start, cb))

CallDeleteUser == PublicCall("delete_user", <<>>, delete_user(Start))

\* the identify operation resolves the identity, once
Identify ==
    /\ ~identify_called
    /\ identify_called' = TRUE
    /\ distinct_id' = ResolvedId
    /\ last' = [op |-> "identify", args |-> <<>>, resolved |-> FALSE, pre |-> queues,
                tr |-> <<>>, ret |-> Undefined, req |-> NoEntry, ok |-> FALSE]
    /\ UNCHANGED <<verbose, queues, inflight, cells, calls, direct, flushes, delivered, buffered,
                   flushed_resolved, flush_failed>>

\* a _flush that did what s records
FlushCall(args, s) ==
    /\ s.tr # <<>> => flushes < MaxFlushes
    /\ flushes' = IF s.tr = <<>> THEN flushes ELSE flushes + 1
    /\ flushed_resolved' = (flushed_resolved \/ identify_called)
    /\ Commit("flush", args, s, NoEntry, FALSE)
    /\ UNCHANGED <<identify_called, distinct_id, verbose, calls, direct, delivered, buffered,
                   flush_failed>>

\* _flush, with a callback supplied for some of the actions and none for the others
CallFlush == \E args \in FlushArgs :
    FlushCall(args, flush(Start, args[1], args[2], args[3], args[4], args[5], args[6]))

\* the transport reports the outcome of one request, in any order
TransportOutcome == \E req \in BagToSet(inflight) : \E ok \in BOOLEAN :
    LET s0 == [Start EXCEPT !.net = inflight (-) SetToBag({req})]
        s == IF ~IsUndefined(req.cb)
             THEN InvokeCallback(s0, req.cb, TransportResult(ok, verbose))
             ELSE s0
    IN /\ Commit("outcome", <<>>, s, req, ok)
       /\ delivered' = [a \in QueueActions |->
             IF ok /\ FromFlush(req) /\ Carries(req.data, a) THEN delivered[a] + 1
             ELSE delivered[a]]
       /\ flush_failed' = (flush_failed \/ (~ok /\ FromFlush(req)))
       /\ UNCHANGED <<identify_called, distinct_id, verbose, calls, direct, flushes, buffered,
                      flushed_resolved>>

Next ==
    \/ CallSet
    \/ CallSetOnce
    \/ CallUnset
    \/ CallIncrement
    \/ CallAppend
    \/ CallUnion
    \/ CallTrackCharge
    \/ CallClearCharges
    \/ CallDeleteUser
    \/ Identify
    \/ CallFlush
    \/ TransportOutcome

Spec == Init /\ [][Next]_vars

----------------------------------------------------------------------------
(* Properties *)

Events(kind) == SelectSeq(last.tr, LAMBDA ev : ev.e = kind)

QueueIsEmpty(queue) ==
    \/ IsUndefined(queue)
    \/ IsObject(queue) /\ DOMAIN queue.m = {}
    \/ IsArray(queue) /\ queue.items = <<>>

AllQueuesEmpty == \A a \in QueueActions : QueueIsEmpty(queues[a])

QueueableOps == {"set", "set_once", "unset", "increment", "append", "union"}

ActionOfOp(op) ==
    CASE op = "set" -> SET_ACTION
      [] op = "set_once" -> SET_ONCE_ACTION
      [] op = "unset" -> UNSET_ACTION
      [] op = "increment" -> ADD_ACTION
      [] op = "append" -> APPEND_ACTION
      [] OTHER -> UNION_ACTION

\* C1: while identity is unresolved no operation makes a transport call (a
\* flush that replays the queues included), and every call of set, set_once,
\* unset, increment, append or union makes exactly one enqueue into the
\* store, under the action kind of that call.
C1_UnresolvedCallsAreQueued ==
    /\ ~identify_called => inflight = EmptyBag
    /\ ~last.resolved =>
          /\ Events("send") = <<>>
          /\ last.op \in QueueableOps =>
                /\ Len(Events("enqueue")) = 1
                /\ Events("enqueue")[1].action = ActionOfOp(last.op)
                /\ ActionOfOp(last.op) \in DOMAIN Events("enqueue")[1].data.m

C1_Witness ==
    /\ ~last.resolved
    /\ last.op = "set_once"
    /\ calls = 2
    /\ ~QueueIsEmpty(queues[APPEND_ACTION])
    /\ ~QueueIsEmpty(queues[SET_ONCE_ACTION])

\* C2: once a flush has run with identity resolved, and as long as no
\* flushed request has come back as a failure, the queue of every action
\* kind is empty, and it stays empty after all the outcomes have arrived.
C2_SuccessfulFlushDrains ==
    (flushed_resolved /\ ~flush_failed) => AllQueuesEmpty

C2_Witness ==
    /\ flushed_resolved
    /\ ~flush_failed
    /\ inflight = EmptyBag
    /\ delivered[APPEND_ACTION] = 1
    /\ \E a \in MapActions : delivered[a] = 1
    /\ AllQueuesEmpty

IsFlushOne(req) == ~IsUndefined(req.cb) /\ req.cb.c = "flush_one"

IsFlushAppend(req) == ~IsUndefined(req.cb) /\ req.cb.c = "flush_append"

\* C3: when the outcome of a flushed APPEND entry is a failure, whatever is
\* handed back to the store is the entry that was popped for that request.
C3_FailedAppendEntryHandedBack ==
    (last.op = "outcome" /\ ~last.ok /\ IsFlushAppend(last.req)) =>
        \A i \in DOMAIN Events("enqueue") :
            /\ Events("enqueue")[i].action = APPEND_ACTION
            /\ Events("enqueue")[i].data = last.req.popped

\* C4: for a flushed entry of a kind other than APPEND the payload read from
\* the queue is handed back exactly when the outcome is a failure, the queue
\* of that kind is then what it was before the flush, and the outcome is
\* forwarded to the caller's continuation for that kind when there is one.
C4_FailedFlushRestoresQueue ==
    (last.op = "outcome" /\ IsFlushOne(last.req)) =>
        LET cb == last.req.cb
            handed == Events("enqueue")
            forwarded == SelectSeq(last.tr, LAMBDA ev : ev.e = "callback" /\ ev.cb.c = "user")
        IN /\ last.ok => handed = <<>>
           /\ ~last.ok => /\ Len(handed) = 1
                          /\ handed[1].action = cb.action
                          /\ handed[1].data = cb.queued_data
                          /\ queues[cb.action] = cb.queued_data
           /\ IF IsUndefined(cb.callback) THEN forwarded = <<>>
              ELSE /\ Len(forwarded) = 1
                   /\ forwarded[1].cb = cb.callback
                   /\ forwarded[1].response = TransportResult(last.ok, verbose)

\* the buffered mutations of the tracked name, per action kind, by place
InQueue(a) ==
    IF IsUndefined(queues[a]) THEN 0
    ELSE IF IsArray(queues[a])
         THEN Count(queues[a].items, LAMBDA item : HasName(item, TrackedName))
         ELSE IF HasName(queues[a], TrackedName) THEN 1 ELSE 0

InFlight(a) ==
    BagCardinality([r \in {x \in DOMAIN inflight : FromFlush(x) /\ Carries(x.data, a)} |->
                      inflight[r]])

\* C5: no buffered mutation is lost and none is applied twice: each one is
\* in its queue, in flight in one request of a flush, or delivered once.
C5_BufferedMutationsConserved ==
    \A a \in QueueActions : buffered[a] = InQueue(a) + InFlight(a) + delivered[a]

\* the entries of the APPEND queue before the last operation
PreAppendEntries ==
    IF IsArray(last.pre[APPEND_ACTION]) THEN last.pre[APPEND_ACTION].items ELSE <<>>

\* C6: the first flush after resolution sends one request per entry that
\* the append calls queued, each carrying the payload of its entry.
C6_OneRequestPerAppendEntry ==
    (last.op = "flush" /\ last.resolved /\ ~flush_failed) =>
        LET sent == SelectSeq(last.tr, LAMBDA ev : ev.e = "send" /\ APPEND_ACTION \in DOMAIN ev.data.m)
        IN /\ Len(sent) = Len(PreAppendEntries)
           /\ \A i \in DOMAIN PreAppendEntries :
                 Count(sent, LAMBDA ev : ev.data.m[APPEND_ACTION] = PreAppendEntries[i])
                   = Count(PreAppendEntries, LAMBDA e : e = PreAppendEntries[i])

\* C7: delete_user while unresolved sends nothing, enqueues nothing and
\* reports one usage error; after resolution it sends exactly one request,
\* which carries the resolved profile identifier.
C7_DeleteUserGate ==
    last.op = "delete_user" =>
        /\ Events("enqueue") = <<>>
        /\ queues = last.pre
        /\ IF ~last.resolved
           THEN /\ Events("send") = <<>>
                /\ Len(Events("error")) = 1
                /\ Events("error")[1].msg = DeleteUserError
                /\ inflight = EmptyBag
           ELSE /\ Len(Events("send")) = 1
                /\ Events("error") = <<>>
                /\ Events("send")[1].data.m[DELETE_ACTION] = ResolvedId
                /\ Events("send")[1].data.m["$distinct_id"] = ResolvedId
                /\ BagIn([data |-> Events("send")[1].data, cb |-> Undefined, popped |-> NoEntry],
                         inflight)

C7_Witness ==
    /\ last.op = "delete_user"
    /\ last.resolved
    /\ calls = 2
    /\ Len(Events("send")) = 1

\* C8: the payload built for any of the six kinds holds no reserved name.
C8_NoReservedNameInPayload ==
    \A i \in DOMAIN Events("dispatch") :
        \A a \in QueueActions :
            a \in DOMAIN Events("dispatch")[i].data.m =>
                /\ ~HasName(Events("dispatch")[i].data.m[a], "$distinct_id")
                /\ ~HasName(Events("dispatch")[i].data.m[a], "$token")

\* the name/value pairs an increment call was given, in either shape
IncrementInput ==
    IF IsObject(last.args[1]) THEN last.args[1].m
    ELSE (KeyOf(last.args[1]) :> IF IsUndefined(last.args[2]) THEN Num(1) ELSE last.args[2])

\* C9: the payload of an increment call holds only numeric values; each
\* non-numeric value is left out and reported once, the numeric ones are kept.
C9_IncrementKeepsOnlyNumbers ==
    last.op = "increment" =>
        LET payload == Events("dispatch")[1].data.m[ADD_ACTION].m
            given == IncrementInput
            bad == {k \in DOMAIN given : ParseFloatIsNaN(given[k])}
        IN /\ \A k \in DOMAIN payload : ~ParseFloatIsNaN(payload[k])
           /\ \A k \in DOMAIN given \ bad :
                 ~is_reserved_property(k) => k \in DOMAIN payload /\ payload[k] = given[k]
           /\ Len(Events("error")) = Cardinality(bad)

\* the position of the return that ends the dispatch starting at position i
ReturnOf(i) == CHOOSE j \in i..Len(last.tr) :
    /\ last.tr[j].e = "return"
    /\ \A k \in i..(j - 1) : last.tr[k].e # "return"

\* C10: a dispatch made while unresolved invokes the continuation it was
\* given exactly once before it returns, with the deferred result, which is
\* neither the success nor the failure result; given none, it invokes none.
C10_DeferredContinuation ==
    \A i \in DOMAIN last.tr :
        (last.tr[i].e = "dispatch" /\ ~last.tr[i].resolved) =>
            LET cb == last.tr[i].cb
                during == SubSeq(last.tr, i, ReturnOf(i))
                invoked == SelectSeq(during, LAMBDA ev : ev.e = "callback")
                own == SelectSeq(invoked, LAMBDA ev : ev.cb = cb)
            IN IF IsUndefined(cb) THEN invoked = <<>>
               ELSE /\ Len(own) = 1
                    /\ own[1].response = Result(-1, verbose)
                    /\ \A ok \in BOOLEAN, v \in BOOLEAN :
                          own[1].response # TransportResult(ok, v)

C10_Witness ==
    /\ last.op = "flush"
    /\ ~last.resolved
    /\ Len(Events("dispatch")) = 2
    /\ \E i \in DOMAIN Events("callback") : Events("callback")[i].cb.c = "user"
    /\ \E i \in DOMAIN Events("callback") : Events("callback")[i].cb.c = "flush_append"

\* every text of a value is within the cap of _.truncate
RECURSIVE RespectsCap(_)
RespectsCap(v) ==
    CASE v.t = "str" -> v.len <= TruncateLength
      [] v.t = "obj" -> \A k \in DOMAIN v.m : RespectsCap(v.m[k])
      [] v.t = "arr" -> \A i \in DOMAIN v.items : RespectsCap(v.items[i])
      [] OTHER -> TRUE

\* the datum a dispatch composes from the payload it was given
Composed(ev) ==
    Obj(Extend(ev.data.m, ("$token" :> Token) @@ ("$distinct_id" :> distinct_id)))

\* C11: a dispatch made with identity resolved hands the transport the
\* truncated request: every text in it is within the cap of 255 and it
\* equals the payload the dispatch returns; a dispatch made while unresolved
\* hands the store the untruncated datum.
C11_WireRequestIsTruncated ==
    \A i \in DOMAIN last.tr :
        last.tr[i].e = "dispatch" =>
            LET during == SubSeq(last.tr, i, ReturnOf(i))
                ret == last.tr[ReturnOf(i)].ret
                sent == SelectSeq(during, LAMBDA ev : ev.e = "send")
                queued == SelectSeq(during, LAMBDA ev : ev.e = "enqueue")
            IN IF last.tr[i].resolved
               THEN \A j \in DOMAIN sent : RespectsCap(sent[j].data) /\ sent[j].data = ret
               ELSE \A j \in DOMAIN queued : queued[j].data = Composed(last.tr[i])

\* the name/list pairs a union call was given, in either shape
UnionInput ==
    IF IsObject(last.args[1]) THEN last.args[1].m
    ELSE (KeyOf(last.args[1]) :> last.args[2])

\* the $union payload a union call builds from what it is given
UnionPayload(list_name, values) ==
    union(Start, list_name, values, Undefined).tr[1].data.m[UNION_ACTION]

\* C12: every value of the payload of a union call is a list: a value that
\* is not a list becomes a list of one, a list is kept as it is, and
\* encoding the payload again gives the same payload.
C12_UnionPromotesIdempotently ==
    last.op = "union" =>
        LET payload == Events("dispatch")[1].data.m[UNION_ACTION]
            given == UnionInput
        IN /\ \A k \in DOMAIN payload.m :
                 /\ IsArray(payload.m[k])
                 /\ k \in DOMAIN given
                 /\ payload.m[k] = IF IsArray(given[k]) THEN given[k] ELSE Arr(<<given[k]>>)
           /\ UnionPayload(payload, Undefined) = payload

\* where in the trace of the last operation the events of kind e for the
\* action a stand
PositionsOf(e, a) ==
    {i \in DOMAIN last.tr :
        /\ last.tr[i].e = e
        /\ IF e = "pop" THEN last.tr[i].action = a ELSE a \in DOMAIN last.tr[i].data.m}

\* the requests of _flush_one_queue for the action a whose outcome is pending
InFlightOne(a) ==
    BagCardinality([r \in {x \in DOMAIN inflight : IsFlushOne(x) /\ x.cb.action = a} |->
                      inflight[r]])

\* C13: for each kind other than APPEND a flush removes the entry it read
\* from the store before it dispatches it, so the store does not hold the
\* entry while its request is in flight: a flush started while an earlier
\* request of the kind is in flight sends nothing for that kind, and a flush
\* of an empty or absent queue neither removes nor dispatches.
C13_FlushRemovesBeforeDispatch ==
    last.op = "flush" =>
        \A a \in MapActions :
            LET pops == PositionsOf("pop", a)
                dispatches == PositionsOf("dispatch", a)
                sends == PositionsOf("send", a)
            IN /\ IF QueueIsEmpty(last.pre[a])
                  THEN pops = {} /\ dispatches = {}
                  ELSE /\ Cardinality(pops) = 1
                       /\ Cardinality(dispatches) = 1
                       /\ \A i \in pops : \A j \in dispatches :
                             i < j /\ last.tr[i].data = last.pre[a]
                       /\ last.resolved => QueueIsEmpty(queues[a])
               /\ (last.resolved /\ InFlightOne(a) > Cardinality(sends)) => sends = {}

C13_Witness ==
    /\ last.op = "flush"
    /\ last.resolved
    /\ flushes = 1
    /\ last.tr = <<>>
    /\ \E a \in MapActions : InFlightOne(a) = 1

PublicOps == QueueableOps \cup {"track_charge", "clear_charges", "delete_user"}

\* C14: a dispatch made with identity resolved leaves the store as it was
\* (nothing handed to it, nothing removed), makes exactly one transport
\* call, and the continuation it was given gets the result of the transport
\* as it is, once, and never the deferred result.
C14_ResolvedDispatchFrame ==
    /\ \A i \in DOMAIN last.tr :
          (last.tr[i].e = "dispatch" /\ last.tr[i].resolved) =>
              LET during == SubSeq(last.tr, i, ReturnOf(i))
                  sent == SelectSeq(during, LAMBDA ev : ev.e = "send")
              IN /\ \A j \in DOMAIN during :
                       during[j].e \notin {"enqueue", "pop", "pop_append", "save", "callback"}
                 /\ Len(sent) = 1
                 /\ sent[1].cb = last.tr[i].cb
                 /\ BagIn([data |-> sent[1].data, cb |-> sent[1].cb,
                           popped |-> IF i > 1 /\ last.tr[i - 1].e = "pop_append"
                                      THEN last.tr[i - 1].item ELSE NoEntry],
                          inflight)
    /\ (last.op \in PublicOps /\ last.resolved) => queues = last.pre
    /\ (last.op = "outcome" /\ ~IsUndefined(last.req.cb)) =>
          LET own == SelectSeq(last.tr, LAMBDA ev : ev.e = "callback" /\ ev.cb = last.req.cb)
          IN /\ Len(own) = 1
             /\ last.tr[1] = own[1]
             /\ own[1].response = TransportResult(last.ok, verbose)
             /\ own[1].response # DeferredResult

C14_Witness ==
    /\ last.op = "outcome"
    /\ last.req.cb = UserCb
    /\ ~last.ok
    /\ verbose
    /\ queues = last.pre

Reverse(seq) == [i \in DOMAIN seq |-> seq[Len(seq) + 1 - i]]

\* the positions, in trace order, of the events of the last operation that
\* satisfy P
Positions(P(_)) ==
    LET idx == {i \in DOMAIN last.tr : P(last.tr[i])}
        Nth[n \in 1..Cardinality(idx)] ==
            CHOOSE i \in idx : Cardinality({j \in idx : j < i}) = n - 1
    IN Nth

\* C15: a flush dispatches the entries of the APPEND queue one at a time
\* from the tail to the head: the requests it sends for them are in the
\* reverse of the order in which the entries were queued.
C15_AppendFlushedTailFirst ==
    (last.op = "flush" /\ last.resolved) =>
        LET popped == Positions(LAMBDA ev : ev.e = "pop_append")
            sent == Positions(LAMBDA ev : ev.e = "send" /\ APPEND_ACTION \in DOMAIN ev.data.m)
            n == Len(PreAppendEntries)
        IN /\ Len(popped) = n
           /\ Len(sent) = n
           /\ \A i \in 1..n :
                 /\ last.tr[popped[i]].item = Reverse(PreAppendEntries)[i]
                 /\ popped[i] < sent[i]
                 /\ i < n => sent[i] < popped[i + 1]
                 /\ \E r \in DOMAIN inflight :
                       /\ r.data = last.tr[sent[i]].data
                       /\ r.popped = Reverse(PreAppendEntries)[i]

C15_Witness ==
    /\ last.op = "flush"
    /\ last.resolved
    /\ Len(PreAppendEntries) = 2
    /\ PreAppendEntries[1] # PreAppendEntries[2]
    /\ Len(Events("send")) = 2

\* C16: a flush made with identity resolved saves the store exactly once
\* when the APPEND queue holds entries, after the last of them was popped
\* and dispatched, and does not save it when the queue is empty or absent.
C16_AppendQueueSavedOnce ==
    (last.op = "flush" /\ last.resolved) =>
        LET saved == Positions(LAMBDA ev : ev.e = "save")
        IN IF PreAppendEntries = <<>> THEN Len(saved) = 0
           ELSE /\ Len(saved) = 1
                /\ \A i \in DOMAIN last.tr :
                      last.tr[i].e \in {"pop_append", "dispatch", "send"} => i < saved[1]
                /\ Len(Events("pop_append")) = Len(PreAppendEntries)

C16_Witness ==
    /\ last.op = "flush"
    /\ last.resolved
    /\ Len(PreAppendEntries) = 2
    /\ Len(Events("save")) = 1
    /\ last.tr[Len(last.tr)].e = "save"

\* the shape of a value handed to the store for the action a: the datum
\* keyed by the action, as a dispatch hands it, or anything else
ShapeOf(data, a) ==
    IF IsObject(data) /\ a \in DOMAIN data.m THEN "keyed by action" ELSE "bare"

\* C17: whatever is handed to the store for an action has one shape, that of
\* the datum a dispatch hands it while unresolved, whether it comes from a
\* dispatch or from the failure continuation of a flush (of either path).
C17_EnqueuedShapeIsUniform ==
    \A i \in DOMAIN Events("enqueue") :
        ShapeOf(Events("enqueue")[i].data, Events("enqueue")[i].action) = "keyed by action"

\* the action a flushed request was sent for
FlushedAction(req) == IF IsFlushOne(req) THEN req.cb.action ELSE APPEND_ACTION

\* C18: a failure outcome of a flushed request hands an entry back to the
\* queue of its action whether verbose is on or off.
C18_ReenqueueWhateverVerbose ==
    (last.op = "outcome" /\ ~last.ok /\ FromFlush(last.req)) =>
        /\ Len(Events("enqueue")) = 1
        /\ Events("enqueue")[1].action = FlushedAction(last.req)

\* C19: a flush made while identity is unresolved loses nothing: every key
\* of the payload each queue other than APPEND held before, and every entry
\* of the APPEND queue in the same order, is in the store after it, and
\* every continuation of the caller that fired got the deferred result.
C19_UnresolvedFlushKeepsAll ==
    (last.op = "flush" /\ ~last.resolved) =>
        /\ \A a \in MapActions :
              IsObject(last.pre[a]) =>
                  /\ IsObject(queues[a])
                  /\ DOMAIN last.pre[a].m \subseteq DOMAIN queues[a].m
        /\ IsArray(last.pre[APPEND_ACTION]) =>
              /\ IsArray(queues[APPEND_ACTION])
              /\ queues[APPEND_ACTION].items = PreAppendEntries
        /\ \A i \in DOMAIN Events("callback") :
              Events("callback")[i].cb.c = "user" =>
                  Events("callback")[i].response = DeferredResult

\* C20: every request handed to the transport carries the token and the
\* profile identifier that is current when it is dispatched; a mutation
\* buffered before identify and replayed by a flush goes out with the
\* resolved identifier, never with the one current when it was buffered.
C20_RequestCarriesCurrentIdentity ==
    /\ \A i \in DOMAIN Events("send") :
          /\ Events("send")[i].data.m["$token"] = Token
          /\ Events("send")[i].data.m["$distinct_id"] = distinct_id
          /\ last.op = "flush" =>
                /\ Events("send")[i].data.m["$distinct_id"] = ResolvedId
                /\ Events("send")[i].data.m["$distinct_id"] # AnonymousId
    /\ \A r \in DOMAIN inflight :
          r.data.m["$token"] = Token /\ r.data.m["$distinct_id"] = ResolvedId

C20_Witness ==
    /\ last.op = "flush"
    /\ last.resolved
    /\ calls = 2
    /\ direct = 0
    /\ Len(Events("send")) = 2
    /\ \A i \in DOMAIN Events("send") : Events("send")[i].data.m["$distinct_id"] = ResolvedId
    /\ \A a \in QueueActions : IsObject(last.pre[a]) => "$distinct_id" \notin DOMAIN last.pre[a].m

====
